---------------------------- MODULE Spec2Model ----------------------------
(***************************************************************************)
(* Degree-preserving network rewiring (src/src/rewire_network.py):         *)
(* limited_random_choice (the capacity-constrained sampler),               *)
(* rewire_network (one stub-matching attempt) and generate_networks (the   *)
(* ensemble loop), over the process-wide random stream of Python's         *)
(* `random` module; and the conversions around them: convert_to_graph,     *)
(* convert_weighted_to_multigraph, to_d2 and the command-line run.         *)
(*                                                                         *)
(* A dict is a sequence of <<key, value>> pairs in insertion order.        *)
(* An Optional[int] is <<>> (None) or <<i>>.                               *)
(* A return value is a record [tag, val].                                  *)
(* A graph is the sequence of its edges <<u, v, weight>> in the order and  *)
(* orientation in which they were first added; a multigraph is the         *)
(* sequence of its edges <<u, v>>.                                         *)
(***************************************************************************)
EXTENDS Integers, Sequences, FiniteSets, TLC

\* ------------------------------------------------------------- bounds
\* Largest degree of a node in an input degree mapping.
MaxDeg == 2
\* Largest ensemble size n.
MaxN == 2
\* Largest retry budget infinite_loop_threshold.
MaxBudget == 3
\* Attempts after which the model stops following a run that has passed
\* its budget, which can then no longer end it.
MaxAttempts == 2
\* The sampler's draw threshold as rewire_network gets it (the default of
\* limited_random_choice, one million in the source), scaled to the model.
DefaultThreshold == 4
\* Largest n, limit and threshold of a direct sampler call.
MaxSample == 2
MaxLimit == 2
MaxThreshold == 4
\* Longest edge list given to convert_to_graph and to_d2.
MaxEdges == 3
\* Most lines of an edge-list file, and the largest weight on a line.
MaxLines == 2
MaxWeight == 2

Nodes == {"a", "b", "c"}
\* The key order of the input mapping (dict insertion order).
NodeOrder == <<"a", "b", "c">>
\* Seeds given by a caller: None, 0 (falsy) and 1 (truthy).
Seeds == {<<>>, <<0>>, <<1>>}

VARIABLES
    entry,      \* the function the caller invoked
    pc,         \* position of the running code
    \* generate_networks
    g, n, seed, infinite_loop_threshold, results, k, gen_ret,
    \* rewire_network
    rw_seed, res, req, q0, q1, lrc, rw_ret,
    \* limited_random_choice
    a, lrc_n, limits, lrc_seed, threshold, counter, result, lrc_k, miss,
    \* the shared random stream: its state, what it has yielded from each
    \* seeded state, and how often random.seed was called
    rng, tape, seedings,
    \* a second run of the same call, for comparing outcomes, and whether
    \* another user of the stream stepped in during it
    run, out1, interfered,
    \* conversions: the lines of the input file, the edge list and flag
    \* given to convert_to_graph / to_d2, the weighted graph h, the
    \* multigraph h_, the diagram, and the files written so far
    input, edgelist, horizontal, h, h_, d2, files

gen_vars == <<g, n, seed, infinite_loop_threshold, results, k, gen_ret>>
rw_vars == <<rw_seed, res, req, q0, q1, lrc, rw_ret>>
lrc_locals == <<counter, result, lrc_k, miss>>
lrc_args == <<a, lrc_n, limits, lrc_seed, threshold>>
rng_vars == <<rng, tape, seedings>>
run_vars == <<run, out1, interfered>>
io_vars == <<input, edgelist, horizontal, h, h_, d2, files>>
vars == <<entry, pc, gen_vars, rw_vars, lrc_args, lrc_locals, rng_vars,
          run_vars, io_vars>>

\* ------------------------------------------------------------- values
None == [tag |-> "None", val |-> <<>>]
Pending == [tag |-> "pending", val |-> <<>>]
NaN == [tag |-> "NaN", val |-> <<>>]
Raised(e) == [tag |-> e, val |-> <<>>]
Ok(v) == [tag |-> "ok", val |-> v]

\* `if seed:` -- None and 0 are falsy.
Truthy(s) == s # <<>> /\ s[1] # 0

\* ------------------------------------------------------------- dicts
Keys(d) == [i \in DOMAIN d |-> d[i][1]]
KeySet(d) == {d[i][1] : i \in DOMAIN d}
Has(d, key) == key \in KeySet(d)
Get(d, key) == d[CHOOSE i \in DOMAIN d : d[i][1] = key][2]
\* d[key] = v for a key d has; d[key] = v appends a new key.
Put(d, key, v) ==
    IF Has(d, key)
    THEN [i \in DOMAIN d |-> IF d[i][1] = key THEN <<key, v>> ELSE d[i]]
    ELSE Append(d, <<key, v>>)

RECURSIVE SumValues(_)
SumValues(d) == IF d = <<>> THEN 0 ELSE d[1][2] + SumValues(Tail(d))

\* ------------------------------------------------------------- random
\* random.seed(s): the stream restarts from the state s determines.
SeedState(s) == [sid |-> <<s>>, pos |-> 0]
\* The state the stream is in when nobody seeded it.
OsState == [sid |-> <<>>, pos |-> 0]

\* What the stream has yielded at state st for a population of `len`
\* (0: this state was never drawn from with this length).  Only a seeded
\* state can be reached twice, so only those are recorded.
Yielded(st, len) ==
    IF st.sid = <<>> \/ st.pos + 1 > Len(tape[st.sid[1]]) THEN 0
    ELSE tape[st.sid[1]][st.pos + 1][len]

\* random.choice over a population of `len`: the indices the stream can
\* yield in its current state.
Choices(len) ==
    IF Yielded(rng, len) # 0 THEN {Yielded(rng, len)} ELSE 1..len

MaxPool == Cardinality(Nodes)
Blank == [l \in 1..MaxPool |-> 0]

Record(st, len, idx) ==
    IF st.sid = <<>> THEN tape
    ELSE LET s == st.sid[1]
             t == tape[s]
             cell == IF st.pos + 1 > Len(t) THEN Blank ELSE t[st.pos + 1]
             new == [cell EXCEPT ![len] = idx]
         IN  [tape EXCEPT ![s] =
                 IF st.pos + 1 > Len(t) THEN Append(t, new)
                 ELSE [t EXCEPT ![st.pos + 1] = new]]

Advance(st) == [st EXCEPT !.pos = st.pos + 1]

\* ------------------------------------------- limited_random_choice
AfterLrc == IF entry = "limited_random_choice" THEN "done" ELSE "rw_after"

\* LrcEnter with the seeding of lines 230-231 moved before the capacity
\* check of lines 224-225.
LrcEnterSeedFirst ==
    /\ pc = "lrc_enter"
    /\ IF Truthy(lrc_seed)
       THEN /\ rng' = SeedState(lrc_seed[1])
            /\ seedings' = seedings + 1
       ELSE UNCHANGED <<rng, seedings>>
    /\ IF lrc_n > SumValues(limits)
       THEN /\ lrc' = Raised("ValueError")
            /\ pc' = AfterLrc
            /\ UNCHANGED <<lrc_locals, tape>>
       ELSE /\ counter' = <<>>
            /\ result' = <<>>
            /\ lrc_k' = 0
            /\ miss' = 0
            /\ pc' = "lrc_loop"
            /\ UNCHANGED <<lrc, tape>>
    /\ UNCHANGED <<entry, gen_vars, rw_seed, res, req, q0, q1, rw_ret,
                   lrc_args, run_vars,
                   io_vars>>

\* Lines 224-231: the capacity check, the locals, the optional seeding.
LrcEnter ==
    /\ pc = "lrc_enter"
    /\ IF lrc_n > SumValues(limits)
       THEN /\ lrc' = Raised("ValueError")
            /\ pc' = AfterLrc
            /\ UNCHANGED <<lrc_locals, rng_vars>>
       ELSE /\ counter' = <<>>
            /\ result' = <<>>
            /\ lrc_k' = 0
            /\ miss' = 0
            /\ IF Truthy(lrc_seed)
               THEN /\ rng' = SeedState(lrc_seed[1])
                    /\ seedings' = seedings + 1
               ELSE UNCHANGED <<rng, seedings>>
            /\ pc' = "lrc_loop"
            /\ UNCHANGED <<lrc, tape>>
    /\ UNCHANGED <<entry, gen_vars, rw_seed, res, req, q0, q1, rw_ret,
                   lrc_args, run_vars,
                   io_vars>>

\* LrcIter not counting the draws it rejects.
LrcIterNoMiss ==
    /\ pc = "lrc_loop"
    /\ IF SumValues(counter) < lrc_n
       THEN IF lrc_k + 1 = threshold
            THEN /\ lrc_k' = lrc_k + 1
                 /\ lrc' = None
                 /\ pc' = AfterLrc
                 /\ UNCHANGED <<counter, result, miss, rng_vars>>
            ELSE IF a = <<>>
            THEN /\ lrc_k' = lrc_k + 1
                 /\ lrc' = Raised("IndexError")
                 /\ pc' = "done"
                 /\ UNCHANGED <<counter, result, miss, rng_vars>>
            ELSE \E idx \in Choices(Len(a)) :
                 LET s == a[idx] IN
                 /\ lrc_k' = lrc_k + 1
                 /\ rng' = Advance(rng)
                 /\ tape' = Record(rng, Len(a), idx)
                 /\ UNCHANGED seedings
                 /\ IF Has(counter, s) /\ ~Has(limits, s)
                    THEN /\ lrc' = Raised("KeyError")
                         /\ pc' = "done"
                         /\ UNCHANGED <<counter, result, miss>>
                    ELSE /\ IF ~Has(counter, s)
                            THEN /\ counter' = Put(counter, s, 1)
                                 /\ result' = Append(result, s)
                                 /\ UNCHANGED miss
                            ELSE IF Get(counter, s) < Get(limits, s)
                            THEN /\ counter' =
                                      Put(counter, s, Get(counter, s) + 1)
                                 /\ result' = Append(result, s)
                                 /\ UNCHANGED miss
                            ELSE UNCHANGED <<counter, result, miss>>
                         /\ pc' = "lrc_loop"
                         /\ UNCHANGED lrc
       ELSE /\ lrc' = Ok(<<result, counter, miss>>)
            /\ pc' = AfterLrc
            /\ UNCHANGED <<lrc_locals, rng_vars>>
    /\ UNCHANGED <<entry, gen_vars, rw_seed, res, req, q0, q1, rw_ret,
                   lrc_args, run_vars,
                   io_vars>>

\* Lines 232-247: one pass of the while loop, or the return after it.
LrcIter ==
    /\ pc = "lrc_loop"
    /\ IF SumValues(counter) < lrc_n
       THEN IF lrc_k + 1 = threshold
            THEN /\ lrc_k' = lrc_k + 1
                 /\ lrc' = None
                 /\ pc' = AfterLrc
                 /\ UNCHANGED <<counter, result, miss, rng_vars>>
            ELSE IF a = <<>>
            THEN /\ lrc_k' = lrc_k + 1
                 /\ lrc' = Raised("IndexError")
                 /\ pc' = "done"
                 /\ UNCHANGED <<counter, result, miss, rng_vars>>
            ELSE \E idx \in Choices(Len(a)) :
                 LET s == a[idx] IN
                 /\ lrc_k' = lrc_k + 1
                 /\ rng' = Advance(rng)
                 /\ tape' = Record(rng, Len(a), idx)
                 /\ UNCHANGED seedings
                 /\ IF Has(counter, s) /\ ~Has(limits, s)
                    THEN /\ lrc' = Raised("KeyError")
                         /\ pc' = "done"
                         /\ UNCHANGED <<counter, result, miss>>
                    ELSE /\ IF ~Has(counter, s)
                            THEN /\ counter' = Put(counter, s, 1)
                                 /\ result' = Append(result, s)
                                 /\ UNCHANGED miss
                            ELSE IF Get(counter, s) < Get(limits, s)
                            THEN /\ counter' =
                                      Put(counter, s, Get(counter, s) + 1)
                                 /\ result' = Append(result, s)
                                 /\ UNCHANGED miss
                            ELSE /\ miss' = miss + 1
                                 /\ UNCHANGED <<counter, result>>
                         /\ pc' = "lrc_loop"
                         /\ UNCHANGED lrc
       ELSE /\ lrc' = Ok(<<result, counter, miss>>)
            /\ pc' = AfterLrc
            /\ UNCHANGED <<lrc_locals, rng_vars>>
    /\ UNCHANGED <<entry, gen_vars, rw_seed, res, req, q0, q1, rw_ret,
                   lrc_args, run_vars,
                   io_vars>>

\* ---------------------------------------------------- rewire_network
AfterRw == IF entry = "rewire_network" THEN "done" ELSE "gen_after"

\* Positive keeping every entry.
PositiveAll(d) == d

\* {k: v for k, v in d.items() if v > 0}
Positive(d) == SelectSeq(d, LAMBDA p : p[2] > 0)

\* Insert putting an item before the items of equal value: a sort that
\* reverses ties instead of keeping their order.
RECURSIVE InsertUnstable(_, _)
InsertUnstable(sorted, p) ==
    IF sorted = <<>> THEN <<p>>
    ELSE IF sorted[Len(sorted)][2] < p[2] THEN Append(sorted, p)
    ELSE Append(InsertUnstable(SubSeq(sorted, 1, Len(sorted) - 1), p),
                sorted[Len(sorted)])

\* sorted(d.items(), key=lambda x: x[1]): a stable insertion sort by value.
RECURSIVE Insert(_, _)
Insert(sorted, p) ==
    IF sorted = <<>> THEN <<p>>
    ELSE IF sorted[Len(sorted)][2] <= p[2] THEN Append(sorted, p)
    ELSE Append(Insert(SubSeq(sorted, 1, Len(sorted) - 1), p),
                sorted[Len(sorted)])

RECURSIVE SortByValue(_)
SortByValue(d) ==
    IF d = <<>> THEN <<>>
    ELSE Insert(SortByValue(SubSeq(d, 1, Len(d) - 1)), d[Len(d)])

\* list(req)[-1] and req.pop(q0): the hub and the mapping without it.
Hub(d) == d[Len(d)]
\* PopHub that reads the hub and leaves it in the mapping.
PopHubKeep(d) == d
PopHub(d) == SubSeq(d, 1, Len(d) - 1)

\* Edges appending (i, q0) instead of (q0, i).
RECURSIVE EdgesSwapped(_, _)
EdgesSwapped(hub, iter) ==
    IF iter = <<>> THEN <<>>
    ELSE <<<<iter[1], hub>>>> \o EdgesSwapped(hub, Tail(iter))

\* for i in iter: res.append((q0, i)); req[i] -= 1
RECURSIVE Edges(_, _)
Edges(hub, iter) ==
    IF iter = <<>> THEN <<>>
    ELSE <<<<hub, iter[1]>>>> \o Edges(hub, Tail(iter))

\* Decrement leaving the mapping as it is.
DecrementNone(d, iter) == d

RECURSIVE Decrement(_, _)
Decrement(d, iter) ==
    IF iter = <<>> THEN d
    ELSE Decrement(Put(d, iter[1], Get(d, iter[1]) - 1), Tail(iter))

\* Lines 55-56.
RwEnter ==
    /\ pc = "rw_enter"
    /\ res' = <<>>
    /\ req' = Positive(g)
    /\ pc' = "rw_loop"
    /\ UNCHANGED <<entry, gen_vars, rw_seed, q0, q1, lrc, rw_ret, lrc_args,
                   lrc_locals, rng_vars, run_vars,
                   io_vars>>

\* RwRound calling the sampler without seed=seed.
RwRoundNoSeed ==
    /\ pc = "rw_loop"
    /\ IF Positive(req) # <<>>
       THEN LET sorted == Positive(SortByValue(req))
                rest == PopHub(sorted)
            IN  /\ q0' = Hub(sorted)[1]
                /\ q1' = Hub(sorted)[2]
                /\ req' = rest
                /\ a' = Keys(rest)
                /\ lrc_n' = Hub(sorted)[2]
                /\ limits' = rest
                /\ lrc_seed' = <<>>
                /\ threshold' = DefaultThreshold
                /\ lrc' = Pending
                /\ counter' = <<>>
                /\ result' = <<>>
                /\ lrc_k' = 0
                /\ miss' = 0
                /\ pc' = "lrc_enter"
                /\ UNCHANGED rw_ret
       ELSE /\ rw_ret' = Ok(res)
            /\ pc' = AfterRw
            /\ UNCHANGED <<req, q0, q1, lrc, lrc_args, lrc_locals>>
    /\ UNCHANGED <<entry, gen_vars, rw_seed, res, rng_vars, run_vars,
                   io_vars>>

\* Lines 58-69, up to the call of the sampler; line 78 when the loop ends.
RwRound ==
    /\ pc = "rw_loop"
    /\ IF Positive(req) # <<>>
       THEN LET sorted == Positive(SortByValue(req))
                rest == PopHub(sorted)
            IN  /\ q0' = Hub(sorted)[1]
                /\ q1' = Hub(sorted)[2]
                /\ req' = rest
                /\ a' = Keys(rest)
                /\ lrc_n' = Hub(sorted)[2]
                /\ limits' = rest
                /\ lrc_seed' = rw_seed
                /\ threshold' = DefaultThreshold
                /\ lrc' = Pending
                /\ counter' = <<>>
                /\ result' = <<>>
                /\ lrc_k' = 0
                /\ miss' = 0
                /\ pc' = "lrc_enter"
                /\ UNCHANGED rw_ret
       ELSE /\ rw_ret' = Ok(res)
            /\ pc' = AfterRw
            /\ UNCHANGED <<req, q0, q1, lrc, lrc_args, lrc_locals>>
    /\ UNCHANGED <<entry, gen_vars, rw_seed, res, rng_vars, run_vars,
                   io_vars>>

\* RwAfter treating the sampler's ValueError like its None: the loop goes on.
RwAfterSwallow ==
    /\ pc = "rw_after"
    /\ IF lrc.tag \in {"ValueError", "None"}
       THEN /\ pc' = "rw_loop"
            /\ UNCHANGED <<res, req, rw_ret>>
       ELSE /\ res' = res \o Edges(q0, lrc.val[1])
            /\ req' = Decrement(req, lrc.val[1])
            /\ pc' = "rw_loop"
            /\ UNCHANGED rw_ret
    /\ UNCHANGED <<entry, gen_vars, rw_seed, q0, q1, lrc, lrc_args,
                   lrc_locals, rng_vars, run_vars,
                   io_vars>>

\* RwAfter decrementing the caller's mapping g along with req, as it
\* would if req were g itself and not a copy.
RwAfterShared ==
    /\ pc = "rw_after"
    /\ IF lrc.tag = "ValueError"
       THEN /\ rw_ret' = NaN
            /\ pc' = AfterRw
            /\ UNCHANGED <<res, req, g>>
       ELSE IF lrc.tag = "None"
       THEN /\ pc' = "rw_loop"
            /\ UNCHANGED <<res, req, rw_ret, g>>
       ELSE /\ res' = res \o Edges(q0, lrc.val[1])
            /\ req' = Decrement(req, lrc.val[1])
            /\ g' = Decrement(g, lrc.val[1])
            /\ pc' = "rw_loop"
            /\ UNCHANGED rw_ret
    /\ UNCHANGED <<entry, n, seed, infinite_loop_threshold, results, k,
                   gen_ret, rw_seed, q0, q1, lrc, lrc_args,
                   lrc_locals, rng_vars, run_vars,
                   io_vars>>

\* Lines 70-77: what the round does with the sampler's outcome.
RwAfter ==
    /\ pc = "rw_after"
    /\ IF lrc.tag = "ValueError"
       THEN /\ rw_ret' = NaN
            /\ pc' = AfterRw
            /\ UNCHANGED <<res, req>>
       ELSE IF lrc.tag = "None"
       THEN /\ pc' = "rw_loop"
            /\ UNCHANGED <<res, req, rw_ret>>
       ELSE /\ res' = res \o Edges(q0, lrc.val[1])
            /\ req' = Decrement(req, lrc.val[1])
            /\ pc' = "rw_loop"
            /\ UNCHANGED rw_ret
    /\ UNCHANGED <<entry, gen_vars, rw_seed, q0, q1, lrc, lrc_args,
                   lrc_locals, rng_vars, run_vars,
                   io_vars>>

\* GenEnter without the seeding of lines 137-138.
GenEnterNoSeed ==
    /\ pc = "gen_enter"
    /\ results' = <<>>
    /\ k' = 0
    /\ UNCHANGED <<rng, seedings>>
    /\ pc' = "gen_loop"
    /\ UNCHANGED <<entry, g, n, seed, infinite_loop_threshold, gen_ret,
                   rw_vars, lrc_args, lrc_locals, tape, run_vars,
                   io_vars>>

\* ------------------------------------------------- generate_networks
\* Lines 135-138.
GenEnter ==
    /\ pc = "gen_enter"
    /\ results' = <<>>
    /\ k' = 0
    /\ IF Truthy(seed)
       THEN /\ rng' = SeedState(seed[1])
            /\ seedings' = seedings + 1
       ELSE UNCHANGED <<rng, seedings>>
    /\ pc' = "gen_loop"
    /\ UNCHANGED <<entry, g, n, seed, infinite_loop_threshold, gen_ret,
                   rw_vars, lrc_args, lrc_locals, tape, run_vars,
                   io_vars>>

\* GenLoop calling rewire_network(g, seed) instead of rewire_network(g).
GenLoopForwardSeed ==
    /\ pc = "gen_loop"
    /\ IF Len(results) < n
       THEN /\ k < infinite_loop_threshold \/ k < MaxAttempts
            /\ rw_seed' = seed
            /\ rw_ret' = Pending
            /\ pc' = "rw_enter"
            /\ UNCHANGED gen_ret
       ELSE /\ gen_ret' = Ok(results)
            /\ pc' = "done"
            /\ UNCHANGED <<rw_seed, rw_ret>>
    /\ UNCHANGED <<entry, g, n, seed, infinite_loop_threshold, results, k,
                   res, req, q0, q1, lrc, lrc_args, lrc_locals, rng_vars,
                   run_vars, io_vars>>

\* Lines 139-140: the loop test and the call of rewire_network(g);
\* line 149 when the loop ends.
GenLoop ==
    /\ pc = "gen_loop"
    /\ IF Len(results) < n
       THEN /\ k < infinite_loop_threshold \/ k < MaxAttempts
            /\ rw_seed' = <<>>
            /\ rw_ret' = Pending
            /\ pc' = "rw_enter"
            /\ UNCHANGED gen_ret
       ELSE /\ gen_ret' = Ok(results)
            /\ pc' = "done"
            /\ UNCHANGED <<rw_seed, rw_ret>>
    /\ UNCHANGED <<entry, g, n, seed, infinite_loop_threshold, results, k,
                   res, req, q0, q1, lrc, lrc_args, lrc_locals, rng_vars,
                   run_vars, io_vars>>

\* GenAfter returning what it has collected when the budget is reached.
GenAfterPartial ==
    /\ pc = "gen_after"
    /\ results' = IF rw_ret.tag # "NaN" THEN Append(results, rw_ret.val)
                  ELSE results
    /\ k' = k + 1
    /\ IF k + 1 = infinite_loop_threshold
       THEN /\ gen_ret' = Ok(results')
            /\ pc' = "done"
       ELSE /\ pc' = "gen_loop"
            /\ UNCHANGED gen_ret
    /\ UNCHANGED <<entry, g, n, seed, infinite_loop_threshold, rw_vars,
                   lrc_args, lrc_locals, rng_vars, run_vars,
                   io_vars>>

\* GenAfter keeping a result only if it is truthy (`if res:`), which drops
\* the empty edge list with NaN.
GenAfterFalsy ==
    /\ pc = "gen_after"
    /\ results' = IF rw_ret.tag # "NaN" /\ rw_ret.val # <<>>
                  THEN Append(results, rw_ret.val)
                  ELSE results
    /\ k' = k + 1
    /\ IF k + 1 = infinite_loop_threshold
       THEN /\ gen_ret' = None
            /\ pc' = "done"
       ELSE /\ pc' = "gen_loop"
            /\ UNCHANGED gen_ret
    /\ UNCHANGED <<entry, g, n, seed, infinite_loop_threshold, rw_vars,
                   lrc_args, lrc_locals, rng_vars, run_vars,
                   io_vars>>

\* Lines 141-147.
GenAfter ==
    /\ pc = "gen_after"
    /\ results' = IF rw_ret.tag # "NaN" THEN Append(results, rw_ret.val)
                  ELSE results
    /\ k' = k + 1
    /\ IF k + 1 = infinite_loop_threshold
       THEN /\ gen_ret' = None
            /\ pc' = "done"
       ELSE /\ pc' = "gen_loop"
            /\ UNCHANGED gen_ret
    /\ UNCHANGED <<entry, g, n, seed, infinite_loop_threshold, rw_vars,
                   lrc_args, lrc_locals, rng_vars, run_vars,
                   io_vars>>

\* ------------------------------------------------------------ callers
TruthySeeds == {s[1] : s \in {x \in Seeds : Truthy(x)}}
PriorStates == {OsState} \cup {SeedState(s) : s \in TruthySeeds}

\* The degree mappings over NodeOrder with degrees 0..MaxDeg.
DegreeMaps ==
    {[i \in DOMAIN NodeOrder |-> <<NodeOrder[i], f[i]>>] :
        f \in [DOMAIN NodeOrder -> 0..MaxDeg]}

\* A degree sequence with an odd sum whose two smaller nodes can be
\* matched with each other.
ScenarioC == <<<<"a", 2>>, <<"b", 2>>, <<"c", 3>>>>
\* The mappings given to generate_networks: those of DegreeMaps, the empty
\* mapping and ScenarioC.
GenInputs == DegreeMaps \cup {<<>>, ScenarioC}

\* No conversion has been asked for.
IoIdle ==
    /\ input = <<>> /\ edgelist = <<>> /\ horizontal = FALSE
    /\ h = <<>> /\ h_ = Pending /\ d2 = Pending /\ files = <<>>

\* No call has run yet.
LocalsIdle ==
    /\ results = <<>> /\ k = 0 /\ gen_ret = Pending
    /\ rw_seed = <<>> /\ res = <<>> /\ req = <<>> /\ q0 = "" /\ q1 = 0
    /\ lrc = Pending /\ rw_ret = Pending
    /\ counter = <<>> /\ result = <<>> /\ lrc_k = 0 /\ miss = 0
    /\ tape = [s \in TruthySeeds |-> <<>>]
    /\ seedings = 0
    /\ run = 1 /\ out1 = Pending /\ interfered = FALSE

Idle ==
    /\ IoIdle
    /\ LocalsIdle

\* A caller invokes generate_networks(g, n, seed, infinite_loop_threshold).
GenCall ==
    /\ entry = "generate_networks"
    /\ pc = "gen_enter"
    /\ g \in GenInputs
    /\ n \in 0..MaxN
    /\ seed \in Seeds
    /\ infinite_loop_threshold \in 0..MaxBudget
    /\ a = <<>> /\ lrc_n = 0 /\ limits = <<>> /\ lrc_seed = <<>>
    /\ threshold = 0
    /\ Idle

\* The call is made in a process that never seeded the stream.
InitGen ==
    /\ GenCall
    /\ rng = OsState

\* The call is made with the stream in any prior state.
InitRepro ==
    /\ GenCall
    /\ rng \in PriorStates

Next ==
    \/ GenEnter
    \/ GenLoop
    \/ GenAfter
    \/ RwEnter
    \/ RwRound
    \/ RwAfter
    \/ LrcEnter
    \/ LrcIter

Spec == InitGen /\ [][Next]_vars

\* A caller invokes limited_random_choice(a, n, limits, seed, threshold).
PoolLen == 2
Pools == UNION {[1..l -> Nodes] : l \in 0..PoolLen} \cup {NodeOrder}
\* Each node has a limit in 0..MaxLimit or no limit at all.
RECURSIVE DictOf(_, _)
DictOf(f, i) ==
    IF i > Len(NodeOrder) THEN <<>>
    ELSE IF f[i] < 0 THEN DictOf(f, i + 1)
    ELSE <<<<NodeOrder[i], f[i]>>>> \o DictOf(f, i + 1)
LimitMaps == {DictOf(f, 1) : f \in [DOMAIN NodeOrder -> -1..MaxLimit]}

InitSampler ==
    /\ entry = "limited_random_choice"
    /\ pc = "lrc_enter"
    /\ a \in Pools
    /\ lrc_n \in 0..MaxSample
    /\ limits \in LimitMaps
    /\ lrc_seed \in Seeds
    /\ threshold \in 1..MaxThreshold
    /\ rng \in PriorStates
    /\ g = <<>> /\ n = 0 /\ seed = <<>> /\ infinite_loop_threshold = 0
    /\ Idle

NextSampler ==
    \/ LrcEnter
    \/ LrcIter

SpecSampler == InitSampler /\ [][NextSampler]_vars

\* The caller makes the same generate_networks call a second time, the
\* stream being in any state by then.
Rerun ==
    /\ entry = "generate_networks"
    /\ pc = "done"
    /\ run = 1
    /\ out1' = gen_ret
    /\ run' = 2
    /\ gen_ret' = Pending
    /\ rng' \in PriorStates
    /\ seedings' = 0
    /\ pc' = "gen_enter"
    /\ UNCHANGED <<entry, g, n, seed, infinite_loop_threshold, results, k,
                   rw_vars, lrc_args, lrc_locals, tape, interfered,
                   io_vars>>

NextRepro ==
    \/ Next
    \/ Rerun

SpecRepro == InitRepro /\ [][NextRepro]_vars

\* Another user of the `random` module (another thread of the process)
\* draws from the stream or seeds it while the second run is under way.
Interfere ==
    /\ entry = "generate_networks"
    /\ run = 2
    /\ pc # "done"
    /\ ~interfered
    /\ rng' \in {Advance(rng)} \cup PriorStates
    /\ interfered' = TRUE
    /\ UNCHANGED <<entry, pc, gen_vars, rw_vars, lrc_args, lrc_locals, tape,
                   seedings, run, out1, io_vars>>

\* The runs compared ask for one instance, with a truthy seed and a budget
\* of two attempts.
InitShared ==
    /\ InitRepro
    /\ Truthy(seed)
    /\ n = 1
    /\ infinite_loop_threshold = 2

NextShared ==
    \/ Next
    \/ Rerun
    \/ Interfere

SpecShared == InitShared /\ [][NextShared]_vars

\* A caller invokes rewire_network(g, seed) itself.  The inputs are the
\* degree mappings of DegreeMaps and those of the docstring's examples
\* (lines 42-45).
ScenarioA == <<<<"a", 3>>, <<"b", 1>>, <<"c", 1>>>>
ScenarioB == <<<<"a", 3>>, <<"b", 2>>, <<"c", 1>>>>

InitRewire ==
    /\ entry = "rewire_network"
    /\ pc = "rw_enter"
    /\ g \in DegreeMaps \cup {ScenarioA, ScenarioB}
    /\ rw_seed \in Seeds
    /\ rng \in PriorStates
    /\ n = 0 /\ seed = <<>> /\ infinite_loop_threshold = 0
    /\ a = <<>> /\ lrc_n = 0 /\ limits = <<>> /\ lrc_seed = <<>>
    /\ threshold = 0
    /\ results = <<>> /\ k = 0 /\ gen_ret = Pending
    /\ res = <<>> /\ req = <<>> /\ q0 = "" /\ q1 = 0
    /\ lrc = Pending /\ rw_ret = Pending
    /\ counter = <<>> /\ result = <<>> /\ lrc_k = 0 /\ miss = 0
    /\ tape = [s \in TruthySeeds |-> <<>>]
    /\ seedings = 0
    /\ run = 1 /\ out1 = Pending /\ interfered = FALSE
    /\ IoIdle

NextRewire ==
    \/ RwEnter
    \/ RwRound
    \/ RwAfter
    \/ LrcEnter
    \/ LrcIter

SpecRewire == InitRewire /\ [][NextRewire]_vars

\* The same call, every step of which is taken sooner or later: the code
\* runs on until it returns.
SpecRewireFair == SpecRewire /\ WF_vars(NextRewire)

\* -------------------------------------------------------- conversions
\* How often the tuple e occurs in the list el.
Occurrences(el, e) == Cardinality({i \in DOMAIN el : el[i] = e})

\* The (source, target) keys in the order pandas sorts the groups: by
\* source, then by target.
SortedPairs ==
    [i \in 1..(Len(NodeOrder) * Len(NodeOrder)) |->
        <<NodeOrder[((i - 1) \div Len(NodeOrder)) + 1],
          NodeOrder[((i - 1) % Len(NodeOrder)) + 1]>>]

\* res_df.groupby(["source", "target"]).count().reset_index(): one row
\* <<source, target, weight>> per distinct (source, target) tuple, the
\* weight being the number of rows of the group.
GroupCount(el) ==
    LET present == SelectSeq(SortedPairs, LAMBDA p : Occurrences(el, p) > 0)
    IN  [i \in DOMAIN present |->
            <<present[i][1], present[i][2], Occurrences(el, present[i])>>]

\* Graph.add_edge(u, v, weight=w): an edge between u and v, in either
\* orientation, keeps its place and takes the new data; weight -1 stands
\* for a line without a weight, which leaves the old data as it is.
AddEdge(gr, u, v, w) ==
    IF \E i \in DOMAIN gr : {gr[i][1], gr[i][2]} = {u, v}
    THEN [i \in DOMAIN gr |->
            IF {gr[i][1], gr[i][2]} = {u, v} /\ w # -1
            THEN <<gr[i][1], gr[i][2], w>>
            ELSE gr[i]]
    ELSE Append(gr, <<u, v, w>>)

\* One add_edge per row / line, in order.
RECURSIVE AddEdges(_, _)
AddEdges(gr, rows) ==
    IF rows = <<>> THEN gr
    ELSE AddEdges(AddEdge(gr, rows[1][1], rows[1][2], rows[1][3]),
                  Tail(rows))

\* nx.from_pandas_edgelist(res_df_weighted, edge_attr=["weight"])
convert_to_graph(el) == AddEdges(<<>>, GroupCount(el))

\* nx.read_edgelist(opts.input)
read_edgelist(lines) == AddEdges(<<>>, lines)

\* The nodes of a graph or multigraph in the order they were added.
AddNode(ns, x) ==
    IF \E i \in DOMAIN ns : ns[i] = x THEN ns ELSE Append(ns, x)
RECURSIVE NodesOf(_)
NodesOf(edges) ==
    IF edges = <<>> THEN <<>>
    ELSE LET e == edges[Len(edges)]
         IN  AddNode(AddNode(NodesOf(SubSeq(edges, 1, Len(edges) - 1)),
                             e[1]), e[2])

Other(e, x) == IF e[1] = x THEN e[2] ELSE e[1]

\* g.edges(data=True): node by node, the edges to the neighbours that have
\* not been reported from before, as (node, neighbour, data).
EdgesFrom(gr, ns, i) ==
    LET seen == {ns[j] : j \in 1..(i - 1)}
        mine == SelectSeq(gr, LAMBDA e :
                    /\ (e[1] = ns[i] \/ e[2] = ns[i])
                    /\ Other(e, ns[i]) \notin seen)
    IN  [j \in DOMAIN mine |-> <<ns[i], Other(mine[j], ns[i]), mine[j][3]>>]
RECURSIVE EdgesUpTo(_, _, _)
EdgesUpTo(gr, ns, i) ==
    IF i = 0 THEN <<>>
    ELSE EdgesUpTo(gr, ns, i - 1) \o EdgesFrom(gr, ns, i)
EdgesData(gr) == EdgesUpTo(gr, NodesOf(gr), Len(NodesOf(gr)))

\* Repeat adding one edge whatever the weight.
RepeatOnce(e, w) == <<e>>

\* for _ in range(w): edges.append(e)
RECURSIVE Repeat(_, _)
Repeat(e, w) ==
    IF w <= 0 THEN <<>> ELSE <<e>> \o Repeat(e, w - 1)

RECURSIVE Expand(_)
Expand(ed) ==
    IF ed = <<>> THEN <<>>
    ELSE Repeat(<<ed[1][1], ed[1][2]>>, ed[1][3]) \o Expand(Tail(ed))

\* Lines 305-311; i[2]["weight"] raises KeyError at the first edge that has
\* no weight.
convert_weighted_to_multigraph(gr) ==
    LET ed == EdgesData(gr)
    IN  IF \E i \in DOMAIN ed : ed[i][3] = -1
        THEN Raised("KeyError")
        ELSE Ok(Expand(ed))

\* MultiGraph.degree(): the edge ends at x, a self-loop counting twice.
MultiDegree(edges, x) ==
    Cardinality({i \in DOMAIN edges : edges[i][1] = x})
    + Cardinality({i \in DOMAIN edges : edges[i][2] = x})

\* dict(g.degree())
Degrees(edges) ==
    LET ns == NodesOf(edges)
    IN  [i \in DOMAIN ns |-> <<ns[i], MultiDegree(edges, ns[i])>>]

\* Counter(edgelist).items(): the distinct tuples in the order of their
\* first occurrence, each with its number of occurrences.
CounterItems(el) ==
    LET tagged == [i \in DOMAIN el |-> <<i, el[i]>>]
        firsts == SelectSeq(tagged, LAMBDA t :
                      \A j \in 1..(t[1] - 1) : el[j] # t[2])
    IN  [i \in DOMAIN firsts |->
            <<firsts[i][2], Occurrences(el, firsts[i][2])>>]

\* One line of the diagram: "u -- v", with " : w {style: ...}" after it
\* unless the weight is 1.
Line(edge, weight) ==
    [left |-> edge[1], right |-> edge[2],
     label |-> IF weight = 1 THEN <<>> ELSE <<weight>>]

\* Lines 278-285; the text is its optional "direction: right" header and
\* its lines.
to_d2(el, hz) ==
    LET items == CounterItems(el)
    IN  [direction |-> IF hz THEN <<"right">> ELSE <<>>,
         lines |-> [i \in DOMAIN items |-> Line(items[i][1], items[i][2])]]

AfterExpand == IF entry = "__main__" THEN "main_call" ELSE "done"

io_frame == <<gen_vars, rw_vars, lrc_args, lrc_locals, rng_vars, run_vars>>

\* G = convert_to_graph(edgelist); the caller hands G on to
\* convert_weighted_to_multigraph.
ConvertToGraph ==
    /\ pc = "convert_to_graph"
    /\ h' = convert_to_graph(edgelist)
    /\ pc' = "convert_weighted_to_multigraph"
    /\ UNCHANGED <<entry, io_frame, input, edgelist, horizontal, h_, d2,
                   files>>

\* h_ = convert_weighted_to_multigraph(h)
ConvertWeightedToMultigraph ==
    /\ pc = "convert_weighted_to_multigraph"
    /\ h_' = convert_weighted_to_multigraph(h)
    /\ pc' = IF h_'.tag = "KeyError" THEN "KeyError" ELSE AfterExpand
    /\ UNCHANGED <<entry, io_frame, input, edgelist, horizontal, h, d2,
                   files>>

\* to_d2(edgelist, horizontal)
ToD2 ==
    /\ pc = "to_d2"
    /\ d2' = Ok(to_d2(edgelist, horizontal))
    /\ pc' = "done"
    /\ UNCHANGED <<entry, io_frame, input, edgelist, horizontal, h, h_,
                   files>>

\* The edge lists and the edge-list files given to the conversions.
EdgeLists == UNION {[1..l -> Nodes \X Nodes] : l \in 0..MaxEdges}
FileLines == Nodes \X Nodes \X (-1..MaxWeight)
Files == UNION {[1..l -> FileLines] : l \in 0..MaxLines}

\* Nothing of the generation is running.
GenIdle ==
    /\ g = <<>> /\ n = 0 /\ seed = <<>> /\ infinite_loop_threshold = 0
    /\ a = <<>> /\ lrc_n = 0 /\ limits = <<>> /\ lrc_seed = <<>>
    /\ threshold = 0
    /\ rng = OsState
    /\ LocalsIdle

\* A caller converts an edge list to a graph and back to a multigraph,
\* expands a graph read from a file, or renders an edge list.
InitCodec ==
    /\ GenIdle
    /\ h_ = Pending /\ d2 = Pending /\ files = <<>>
    /\ \/ /\ entry = "convert_to_graph"
          /\ pc = "convert_to_graph"
          /\ edgelist \in EdgeLists
          /\ horizontal = FALSE /\ input = <<>> /\ h = <<>>
       \/ /\ entry = "convert_weighted_to_multigraph"
          /\ pc = "convert_weighted_to_multigraph"
          /\ input \in Files
          /\ h = read_edgelist(input)
          /\ edgelist = <<>> /\ horizontal = FALSE
       \/ /\ entry = "to_d2"
          /\ pc = "to_d2"
          /\ edgelist \in EdgeLists
          /\ horizontal \in BOOLEAN
          /\ input = <<>> /\ h = <<>>

NextCodec ==
    \/ ConvertToGraph
    \/ ConvertWeightedToMultigraph
    \/ ToD2

SpecCodec == InitCodec /\ [][NextCodec]_vars

\* ------------------------------------------------------------ __main__
\* The retry budget generate_networks_from_graph passes on (its default,
\* ten thousand in the source), scaled to the model.
MainBudget == MaxBudget

\* The graph of the docstrings, a-b of weight 2 and a-c of weight 1, and a
\* triangle.
DocGraph == <<<<"a", "b", 2>>, <<"a", "c", 1>>>>
Triangle == <<<<"a", "b", 1>>, <<"b", "c", 1>>, <<"a", "c", 1>>>>
\* The input files of the command-line runs.
MainInputs == {f \in Files : Len(f) <= 1} \cup {DocGraph, Triangle}

\* Line 331.
ReadEdgelist ==
    /\ pc = "read_edgelist"
    /\ h' = read_edgelist(input)
    /\ pc' = "convert_weighted_to_multigraph"
    /\ UNCHANGED <<entry, io_frame, input, edgelist, horizontal, h_, d2,
                   files>>

\* Lines 333-334 and 106-107: generate_networks_from_graph(h_, n, seed)
\* takes the degrees of h_ and calls generate_networks.
GenerateNetworksFromGraph ==
    /\ pc = "main_call"
    /\ g' = Degrees(h_.val)
    /\ infinite_loop_threshold' = MainBudget
    /\ pc' = "gen_enter"
    /\ UNCHANGED <<entry, n, seed, results, k, gen_ret, rw_vars, lrc_args,
                   lrc_locals, rng_vars, run_vars, io_vars>>

\* MainWrite naming every file after the seed alone.
MainWriteNoIndex ==
    /\ entry = "__main__"
    /\ pc = "done"
    /\ files' = IF gen_ret.tag = "ok" /\ gen_ret.val # <<>>
                THEN [i \in DOMAIN gen_ret.val |->
                        [name |-> <<seed, 0>>,
                         graph |-> convert_to_graph(gen_ret.val[i])]]
                ELSE files
    /\ pc' = "exit"
    /\ UNCHANGED <<entry, io_frame, input, edgelist, horizontal, h, h_, d2>>

\* Lines 336-344: `if networks:` skips None and the empty list; each
\* network is converted and written to seed{seed}_{i}.edgelist.gz.
MainWrite ==
    /\ entry = "__main__"
    /\ pc = "done"
    /\ files' = IF gen_ret.tag = "ok" /\ gen_ret.val # <<>>
                THEN [i \in DOMAIN gen_ret.val |->
                        [name |-> <<seed, i - 1>>,
                         graph |-> convert_to_graph(gen_ret.val[i])]]
                ELSE files
    /\ pc' = "exit"
    /\ UNCHANGED <<entry, io_frame, input, edgelist, horizontal, h, h_, d2>>

\* The program is run with -i input, -n n and -s seed, in a new process.
InitMain ==
    /\ entry = "__main__"
    /\ pc = "read_edgelist"
    /\ input \in MainInputs
    /\ n \in 0..MaxN
    /\ seed \in Seeds
    /\ g = <<>> /\ infinite_loop_threshold = 0
    /\ a = <<>> /\ lrc_n = 0 /\ limits = <<>> /\ lrc_seed = <<>>
    /\ threshold = 0
    /\ rng = OsState
    /\ LocalsIdle
    /\ edgelist = <<>> /\ horizontal = FALSE
    /\ h = <<>> /\ h_ = Pending /\ d2 = Pending /\ files = <<>>

NextMain ==
    \/ ReadEdgelist
    \/ ConvertWeightedToMultigraph
    \/ GenerateNetworksFromGraph
    \/ GenEnter
    \/ GenLoop
    \/ GenAfter
    \/ RwEnter
    \/ RwRound
    \/ RwAfter
    \/ LrcEnter
    \/ LrcIter
    \/ MainWrite

SpecMain == InitMain /\ [][NextMain]_vars

\* ------------------------------------------------------------- claims
\* Number of edge endpoints touching `node` in an edge list.
Endpoints(edges, node) ==
    Cardinality({i \in DOMAIN edges : edges[i][1] = node})
    + Cardinality({i \in DOMAIN edges : edges[i][2] = node})
KeepsDegrees(edges) ==
    \A node \in KeySet(g) : Endpoints(edges, node) = Get(g, node)
NoSelfLoop(edges) == \A i \in DOMAIN edges : edges[i][1] # edges[i][2]

\* C1: every edge list rewire_network returns, and every instance of an
\* ensemble generate_networks returns, gives each node as many edge
\* endpoints as its degree in g.
C1_DegreePreserved ==
    /\ rw_ret.tag = "ok" => KeepsDegrees(rw_ret.val)
    /\ gen_ret.tag = "ok" =>
           \A i \in DOMAIN gen_ret.val : KeepsDegrees(gen_ret.val[i])

\* C2: when a sampler call of rewire_network ends with InvalidRequest
\* (ValueError) or SamplingExhausted (None), rewire_network stops there and
\* returns NaN.
C2_FailureAborts ==
    [][(pc = "rw_after" /\ lrc.tag \in {"ValueError", "None"})
          => (rw_ret'.tag = "NaN" /\ pc' = AfterRw)]_vars

\* C3: for limits of non-negative integers covering the pool and
\* n <= sum(limits), a returned count map has no count above its key's
\* limit and its counts sum to n.
C3_SamplerCorrect ==
    (/\ lrc.tag = "ok"
     /\ lrc_n <= SumValues(limits)
     /\ \A i \in DOMAIN a : Has(limits, a[i]))
    => /\ \A key \in KeySet(lrc.val[2]) :
              Get(lrc.val[2], key) <= Get(limits, key)
       /\ SumValues(lrc.val[2]) = lrc_n

\* C4: when n > sum(limits) the sampler raises ValueError in the step that
\* enters it: the stream keeps its state, is not reseeded even with a seed
\* argument, and no selection, count, miss or draw is produced.
C4_RaiseBeforeDraw ==
    [][(pc = "lrc_enter" /\ lrc_n > SumValues(limits))
          => /\ lrc'.tag = "ValueError"
             /\ rng' = rng /\ tape' = tape /\ seedings' = seedings
             /\ result' = <<>> /\ counter' = <<>>
             /\ miss' = 0 /\ lrc_k' = 0]_vars
\* A call with a truthy seed and n > sum(limits) has raised, the stream
\* still in the unseeded state it had.
C4_Witness ==
    /\ entry = "limited_random_choice"
    /\ lrc.tag = "ValueError"
    /\ Truthy(lrc_seed)
    /\ lrc_n > SumValues(limits)
    /\ rng = OsState

\* C5: generate_networks returns None or a list of exactly n instances.
C5_AllOrNothing ==
    /\ gen_ret.tag \in {"pending", "None", "ok"}
    /\ gen_ret.tag = "ok" => Len(gen_ret.val) = n
\* An ensemble of one instance returned after a failed first attempt.
C5_Witness ==
    /\ gen_ret.tag = "ok"
    /\ n = 1
    /\ k = 2
    /\ infinite_loop_threshold = 3

\* C6: generate_networks returns None only if fewer than n instances had
\* been collected when the attempt counter reached the budget.
C6_ExhaustedOnlyIfShort ==
    gen_ret.tag = "None" => Len(results) < n

\* C7: generate_networks never runs more rewiring attempts than its budget
\* infinite_loop_threshold, whatever the budget's value.
C7_AttemptsWithinBudget ==
    entry = "generate_networks" => k <= infinite_loop_threshold

\* C8: two runs of generate_networks with the same integer seed, degree
\* sequence, n and budget return the same outcome, whatever state the
\* stream was in before each.
C8_Reproducible ==
    (run = 2 /\ pc = "done" /\ seed # <<>>) => gen_ret = out1

\* C9: during a generate_networks call random.seed is called at most once,
\* in the step before the first attempt; every other change of the stream
\* is one draw advancing it from where it stood.
C9_SeedOnce ==
    [][/\ seedings' # seedings => (pc = "gen_enter" /\ seedings' = 1)
       /\ rng' # rng => \/ pc = "gen_enter"
                        \/ (pc = "lrc_loop" /\ rng' = Advance(rng))]_vars
\* A seeded ensemble whose two instances differ in edge order.
C9_Witness ==
    /\ Truthy(seed)
    /\ seedings = 1
    /\ Len(results) = 2
    /\ results[1] # results[2]

\* C10: no edge list rewire_network builds or returns, and no instance
\* generate_networks collects, holds an edge from a node to itself.
C10_NoSelfLoops ==
    /\ NoSelfLoop(res)
    /\ rw_ret.tag = "ok" => NoSelfLoop(rw_ret.val)
    /\ \A i \in DOMAIN results : NoSelfLoop(results[i])
\* A returned edge list of three edges.
C10_Witness ==
    /\ rw_ret.tag = "ok"
    /\ Len(rw_ret.val) = 3

\* C11: a round whose hub has more stubs than all other nodes together
\* makes the sampler raise without a draw; rewire_network then returns NaN
\* without another sampler call or another edge.  {a:3, b:1, c:1} never
\* yields an edge list.
C11_InfeasibleFails ==
    /\ [][(pc = "lrc_enter" /\ q1 > SumValues(req))
             => /\ pc' = "rw_after"
                /\ lrc'.tag = "ValueError"
                /\ rng' = rng /\ res' = res]_vars
    /\ [][(pc = "rw_after" /\ q1 > SumValues(req))
             => /\ pc' = "done"
                /\ rw_ret' = NaN
                /\ rng' = rng /\ res' = res]_vars
    /\ [](g = ScenarioA => rw_ret.tag \in {"pending", "NaN"})
\* {a:3, b:1, c:1} has failed, no edge built and no draw made.
C11_Witness ==
    /\ g = ScenarioA
    /\ rw_ret.tag = "NaN"
    /\ res = <<>>
    /\ rng.pos = 0

\* The edge lists of three edges from a, to b twice and to c once.
ForcedB ==
    {<<<<"a", "b">>, <<"a", "b">>, <<"a", "c">>>>,
     <<<<"a", "b">>, <<"a", "c">>, <<"a", "b">>>>,
     <<<<"a", "c">>, <<"a", "b">>, <<"a", "b">>>>}

\* C12 as stated: for {a:3, b:2, c:1} rewire_network never fails and
\* returns three edges from a, to b twice and to c once.
C12_ForcedNeverFails ==
    (g = ScenarioB /\ rw_ret.tag # "pending")
    => (rw_ret.tag = "ok" /\ rw_ret.val \in ForcedB)
\* C12: for {a:3, b:2, c:1} rewire_network returns either three edges from
\* a, to b twice and to c once, or NaN; NaN only in the round of hub b with
\* no edge built, that is after the sampler call for hub a ended with None.
C12_ForcedOrExhausted ==
    (g = ScenarioB /\ rw_ret.tag # "pending")
    => \/ (rw_ret.tag = "ok" /\ rw_ret.val \in ForcedB)
       \/ (rw_ret.tag = "NaN" /\ res = <<>> /\ q0 = "b" /\ rng.pos > 0)
\* The docstring's result [(a,b), (a,b), (a,c)] is returned.
C12_Witness ==
    /\ g = ScenarioB
    /\ rw_ret = Ok(<<<<"a", "b">>, <<"a", "b">>, <<"a", "c">>>>)

\* C19: the hub of a round has the largest remaining degree of the mapping
\* and, among the nodes that have it, is the last in the mapping's order.
C19_HubIsLastMaximum ==
    [][(pc = "rw_loop" /\ pc' = "lrc_enter")
          => LET top == {i \in DOMAIN req :
                            \A j \in DOMAIN req : req[j][2] <= req[i][2]}
                 last == CHOOSE i \in top : \A j \in top : j <= i
             IN  /\ q1' = req[last][2]
                 /\ q0' = req[last][1]
                 /\ q1' > 0]_vars
\* A later round whose hub was tied with a node left in the mapping.
C19_Witness ==
    /\ pc = "lrc_enter"
    /\ res # <<>>
    /\ \E i \in DOMAIN req : req[i][2] = q1

\* The draws a sampler call has made: each one was accepted or missed.
Draws == Len(result) + miss

\* C18: limited_random_choice returns None only when the number of draws it
\* has made has reached threshold with fewer than n selections accepted.
C18_ExhaustedAtThreshold ==
    (entry = "limited_random_choice" /\ lrc.tag = "None")
    => (Draws = threshold /\ SumValues(counter) < lrc_n)

\* The number of times key s has been selected so far.
Count(s) == IF Has(counter, s) THEN Get(counter, s) ELSE 0
\* Key s has been selected limits[s] times already.
Saturated(s) == Count(s) >= Get(limits, s)

\* C20: a draw leaves the pool as it is; the draw of a key already selected
\* limits[key] times adds one to miss and leaves result and counter alone,
\* the draw of any other key appends it to result and adds one to its count.
C20_FullPoolRejection ==
    [][(/\ pc = "lrc_loop"
        /\ rng' # rng
        /\ \A i \in DOMAIN a : Has(limits, a[i]))
          => /\ a' = a
             /\ \/ /\ \E i \in DOMAIN a : Saturated(a[i])
                   /\ miss' = miss + 1
                   /\ result' = result
                   /\ counter' = counter
                \/ \E i \in DOMAIN a :
                   /\ ~Saturated(a[i])
                   /\ result' = Append(result, a[i])
                   /\ counter' = Put(counter, a[i], Count(a[i]) + 1)
                   /\ miss' = miss]_vars

\* How often u and v are joined in a list of edges, in either orientation.
Joined(edges, u, v) ==
    Cardinality({i \in DOMAIN edges : {edges[i][1], edges[i][2]} = {u, v}})

\* The weight of the graph's edge between u and v; 0 when there is none.
WeightOf(gr, u, v) ==
    IF \E i \in DOMAIN gr : {gr[i][1], gr[i][2]} = {u, v}
    THEN LET i == CHOOSE j \in DOMAIN gr : {gr[j][1], gr[j][2]} = {u, v}
         IN  gr[i][3]
    ELSE 0

\* C13: convert_to_graph followed by convert_weighted_to_multigraph gives
\* back the input edges, as a multiset of unordered pairs.
C13_RoundTrip ==
    (entry = "convert_to_graph" /\ pc = "done")
    => /\ h_.tag = "ok"
       /\ \A u, v \in Nodes :
              Joined(h_.val, u, v) = Joined(edgelist, u, v)

\* C14: the graph of convert_to_graph has an edge exactly between the
\* pairs that occur in the list, its weight being the number of times the
\* pair occurs in either orientation.
C14_GroupsUnordered ==
    (entry = "convert_to_graph" /\ pc # "convert_to_graph")
    => \A u, v \in Nodes : WeightOf(h, u, v) = Joined(edgelist, u, v)

\* The sum of the weights of the graph's edges at x, a self-loop counting
\* at both of its ends as it does in a degree.
RECURSIVE WeightedDegree(_, _)
WeightedDegree(gr, x) ==
    IF gr = <<>> THEN 0
    ELSE WeightedDegree(Tail(gr), x)
         + (IF gr[1][1] = x THEN gr[1][3] ELSE 0)
         + (IF gr[1][2] = x THEN gr[1][3] ELSE 0)

\* C15: the multigraph of convert_weighted_to_multigraph joins two nodes
\* exactly as many times as the weight of their edge says, so the degree
\* of a node is the sum of the weights of its edges.
C15_ExpandsWeights ==
    (entry = "convert_weighted_to_multigraph" /\ pc = "done")
    => /\ h_.tag = "ok"
       /\ \A u, v \in Nodes : Joined(h_.val, u, v) = WeightOf(h, u, v)
       /\ \A x \in Nodes : MultiDegree(h_.val, x) = WeightedDegree(h, x)
\* A graph with an edge of weight 2 at a node that has another edge has
\* been expanded.
C15_Witness ==
    /\ entry = "convert_weighted_to_multigraph"
    /\ pc = "done"
    /\ \E i, j \in DOMAIN h :
          /\ i # j
          /\ h[i][3] >= 2
          /\ h[j][3] >= 1
          /\ {h[i][1], h[i][2]} \cap {h[j][1], h[j][2]} # {}

\* Where the unordered pair of nodes first occurs in the edge list.
FirstJoined(el, u, v) ==
    CHOOSE i \in DOMAIN el :
        /\ {el[i][1], el[i][2]} = {u, v}
        /\ \A j \in 1..(i - 1) : {el[j][1], el[j][2]} # {u, v}

\* C16: to_d2 gives one line per distinct unordered pair of the edge list,
\* labelled with the number of times the pair occurs when that is more
\* than 1, the lines in the order in which the pairs first occur.
C16_LinePerPair ==
    (entry = "to_d2" /\ pc = "done")
    => LET ls == d2.val.lines
       IN  /\ \A i \in DOMAIN ls :
                  /\ Joined(edgelist, ls[i].left, ls[i].right) > 0
                  /\ ls[i].label =
                       IF Joined(edgelist, ls[i].left, ls[i].right) = 1
                       THEN <<>>
                       ELSE <<Joined(edgelist, ls[i].left, ls[i].right)>>
           /\ \A u, v \in Nodes :
                  Joined(edgelist, u, v) > 0
                  => \E i \in DOMAIN ls : {ls[i].left, ls[i].right} = {u, v}
           /\ \A i, j \in DOMAIN ls :
                  i < j => FirstJoined(edgelist, ls[i].left, ls[i].right)
                           < FirstJoined(edgelist, ls[j].left, ls[j].right)

\* C17: when the generation returns an ensemble, the run writes one file
\* per member, the i-th named after the seed and i; when it returns None
\* the run writes nothing; either way it goes on to its end.
C17_OneFilePerMember ==
    (entry = "__main__" /\ gen_ret.tag # "pending")
    => /\ pc \in {"done", "exit"}
       /\ pc = "done" => files = <<>>
       /\ (pc = "exit" /\ gen_ret.tag = "None") => files = <<>>
       /\ (pc = "exit" /\ gen_ret.tag = "ok")
            => /\ Len(gen_ret.val) = n
               /\ Len(files) = n
               /\ \A i \in 1..n :
                     /\ files[i].name = <<seed, i - 1>>
                     /\ files[i].graph = convert_to_graph(gen_ret.val[i])
\* A run for two networks has written its files.
C17_Witness ==
    /\ entry = "__main__"
    /\ pc = "exit"
    /\ gen_ret.tag = "ok"
    /\ Len(files) = 2

\* C21: a returned (selections, counts, misses) has n selections, counts
\* holds for every selected key the number of times it occurs in selections
\* and no other key, and misses is the number of draws less n; a draw
\* either leaves selections alone or appends the key drawn.
C21_ResultsConsistent ==
    /\ [](lrc.tag = "ok"
            => LET sel == lrc.val[1]
                   cnt == lrc.val[2]
                   ms == lrc.val[3]
               IN  /\ Len(sel) = lrc_n
                   /\ \A x \in Nodes :
                         /\ Has(cnt, x) <=> Occurrences(sel, x) > 0
                         /\ Has(cnt, x) => Get(cnt, x) = Occurrences(sel, x)
                   /\ ms = rng.pos - lrc_n)
    /\ [][(pc = "lrc_loop" /\ rng' # rng)
             => \/ result' = result
                \/ \E i \in Choices(Len(a)) : result' = Append(result, a[i])]_vars
\* Pool [a, b, c] with limits 1, 1 and 2 has yielded [c, c], {c: 2} and no
\* miss.
C21_Witness ==
    /\ a = NodeOrder
    /\ limits = <<<<"a", 1>>, <<"b", 1>>, <<"c", 2>>>>
    /\ lrc = Ok(<<<<"c", "c">>, <<<<"c", 2>>>>, 0>>)

\* C22: rewire_network returns; a round whose sampling succeeds lowers the
\* sum of the remaining degrees (by the hub's degree when the hub is
\* taken out, and by as much again for its targets); every round takes
\* one node out of the working mapping, which starts with the nodes of
\* positive degree and never grows.
C22_Terminates ==
    /\ <>(rw_ret.tag # "pending")
    /\ [][(pc = "rw_after" /\ lrc.tag = "ok")
             => /\ q1 > 0
                /\ SumValues(req') = SumValues(req) - q1]_vars
    /\ [][(pc = "rw_loop" /\ pc' = "lrc_enter")
             => /\ Len(req') < Len(req)
                /\ SumValues(req') = SumValues(req) - q1']_vars
    /\ [][IF pc = "rw_enter"
          THEN Len(req') = Cardinality({i \in DOMAIN g : g[i][2] > 0})
          ELSE Len(req') <= Len(req)]_vars
\* A call has returned an edge list built in two rounds.
C22_Witness ==
    /\ rw_ret.tag = "ok"
    /\ \E i, j \in DOMAIN rw_ret.val : rw_ret.val[i][1] # rw_ret.val[j][1]

\* C23: no step changes the caller's mapping g; every attempt starts with
\* no edges and with the positive entries of g as its working mapping; and
\* between attempts generate_networks changes nothing but its attempt
\* counter, its list of instances and its return value.
C23_FreshAttempt ==
    /\ [][g' = g]_vars
    /\ [][pc = "rw_enter" => (res' = <<>> /\ req' = Positive(g))]_vars
    /\ [][(pc \in {"gen_loop", "gen_after"})
             => (UNCHANGED <<g, n, seed, infinite_loop_threshold, rng>>)]_vars
\* A second attempt starts from the whole mapping after a first attempt
\* that built edges.
C23_Witness ==
    /\ entry = "generate_networks"
    /\ pc = "rw_loop"
    /\ k >= 1
    /\ results # <<>>
    /\ results[1] # <<>>
    /\ res = <<>>
    /\ req = Positive(g)

\* The mapping has no positive degree.
NoPositive(d) == \A i \in DOMAIN d : d[i][2] <= 0

\* C24: for a mapping with no positive degree rewire_network returns the
\* empty edge list, which is not NaN, without a draw, and generate_networks
\* appends it to its instances.
C24_EmptyIsSuccess ==
    /\ [](NoPositive(g)
            => /\ rng.pos = 0
               /\ rw_ret \in {Pending, Ok(<<>>)}
               /\ rw_ret # NaN)
    /\ [][(NoPositive(g) /\ pc = "gen_after")
             => results' = Append(results, <<>>)]_vars
\* The empty mapping has given an ensemble of two empty instances.
C24_Witness ==
    /\ g = <<>>
    /\ gen_ret = Ok(<<<<>>, <<>>>>)

\* C25: two runs of generate_networks with the same truthy seed, mapping,
\* n and budget return the same outcome as long as nobody else touched the
\* stream during the second.
C25_AloneReproducible ==
    (run = 2 /\ pc = "done" /\ Truthy(seed) /\ ~interfered)
    => gen_ret = out1
\* Another user stepped in during the second run, and its ensemble differs
\* from that of the first.
C25_Witness ==
    /\ run = 2
    /\ pc = "done"
    /\ Truthy(seed)
    /\ interfered
    /\ out1.tag = "ok"
    /\ gen_ret.tag = "ok"
    /\ gen_ret # out1

\* C26: the hub of a round is not in the working mapping afterwards and
\* no key ever enters the mapping, so a node is the hub at most once and
\* is never a target later; in the edges built so far, the edges of one
\* source are next to each other, an earlier source is never a later
\* target, and no pair of nodes is joined in both orientations.
C26_HubOnce ==
    /\ [][(pc = "rw_loop" /\ pc' = "lrc_enter")
             => /\ q0' \in KeySet(req)
                /\ q0' \notin KeySet(req')
                /\ q0' \notin {a'[i] : i \in DOMAIN a'}]_vars
    /\ [][pc # "rw_enter" => KeySet(req') \subseteq KeySet(req)]_vars
    /\ [](\A i, j \in DOMAIN res :
             /\ i < j => res[j][2] # res[i][1]
             /\ (i < j /\ res[i][1] = res[j][1])
                  => \A m \in i..j : res[m][1] = res[i][1]
             /\ <<res[i][1], res[i][2]>> # <<res[j][2], res[j][1]>>)
\* An edge list of two sources has been returned.
C26_Witness ==
    /\ entry = "rewire_network"
    /\ rw_ret.tag = "ok"
    /\ Len(rw_ret.val) >= 3
    /\ rw_ret.val[1][1] # rw_ret.val[Len(rw_ret.val)][1]

\* The degree mapping {a:2, b:2, c:2}, realised by the triangle.
Twos == <<<<"a", 2>>, <<"b", 2>>, <<"c", 2>>>>

\* C27: for {a:2, b:2, c:2} rewire_network returns NaN exactly when the
\* first round gave both stubs of its hub to the same node, and otherwise
\* an edge list without self-loops that has the degrees of the mapping.
C27_RealisableMayFail ==
    (g = Twos /\ rw_ret.tag # "pending")
    => /\ Len(res) >= 2
       /\ IF res[1][2] = res[2][2]
          THEN rw_ret = NaN /\ Len(res) = 2
          ELSE /\ rw_ret = Ok(res)
               /\ KeepsDegrees(res)
               /\ NoSelfLoop(res)
\* The first round of {a:2, b:2, c:2} has given one stub to a, and its next
\* draw can be a again (the call will fail) or b (the call will succeed).
C27_Witness ==
    /\ g = Twos
    /\ pc = "lrc_loop"
    /\ res = <<>>
    /\ result = <<"a">>
    /\ ENABLED (LrcIter /\ result' = <<"a", "a">>)
    /\ ENABLED (LrcIter /\ result' = <<"a", "b">>)

C29_EveryRoundReseeds ==
    [][pc = "lrc_enter"
          => IF Truthy(rw_seed)
             THEN rng' = SeedState(rw_seed[1]) /\ seedings' = seedings + 1
             ELSE rng' = rng /\ seedings' = seedings]_vars
\* C29: rewire_network hands its seed to every sampler call; with a truthy
\* seed every call that passes the capacity check reseeds the stream with
\* it before its first draw, and a call that raises leaves the stream as
\* it is; with no seed (or seed 0) no call reseeds; nothing else reseeds.
C29_DrawingRoundsReseed ==
    /\ [][pc = "lrc_enter"
             => /\ lrc_seed = rw_seed
                /\ IF Truthy(rw_seed) /\ lrc_n <= SumValues(limits)
                   THEN /\ rng' = SeedState(rw_seed[1])
                        /\ seedings' = seedings + 1
                   ELSE /\ rng' = rng
                        /\ seedings' = seedings]_vars
    /\ [][pc # "lrc_enter" => seedings' = seedings]_vars
\* A seeded call has reseeded the stream in each of two rounds.
C29_Witness ==
    /\ entry = "rewire_network"
    /\ Truthy(rw_seed)
    /\ seedings = 2
    /\ rw_ret.tag = "ok"

\* C30: while a sampler call made by rewire_network runs, its pool is the
\* key list of its limits, holds no key twice and not the hub, and every
\* limit is at least 1; the call never counts a key beyond its limit and
\* never ends with a KeyError or an IndexError.
C30_CallsWellFormed ==
    (entry = "rewire_network" /\ pc \in {"lrc_enter", "lrc_loop", "rw_after"})
    => /\ a = Keys(limits)
       /\ \A i, j \in DOMAIN a : a[i] = a[j] => i = j
       /\ \A i \in DOMAIN a : a[i] # q0
       /\ \A i \in DOMAIN limits : limits[i][2] >= 1
       /\ \A i \in DOMAIN counter :
             /\ Has(limits, counter[i][1])
             /\ counter[i][2] <= Get(limits, counter[i][1])
       /\ lrc.tag \notin {"KeyError", "IndexError"}
\* A sampler call made by rewire_network has filled a candidate up to its
\* limit of 2.
C30_Witness ==
    /\ entry = "rewire_network"
    /\ pc = "rw_after"
    /\ lrc.tag = "ok"
    /\ \E i \in DOMAIN counter :
          counter[i][2] = 2 /\ Get(limits, counter[i][1]) = 2

=============================================================================
